---------------------------- MODULE Spec2Model ----------------------------
(***************************************************************************)
(* Model of src/app.py, the QA Coaching Agent: one Streamlit script that   *)
(* reads an API key, and on "Evaluate" sends the ticket to the model,      *)
(* extracts a JSON object from the reply (evaluate_ticket), validates it   *)
(* and renders it, followed by the ROI estimator.                          *)
(*                                                                         *)
(* Text is modelled as a sequence of lexemes (TLA+ strings are atomic):    *)
(* the text is the concatenation of the lexemes.  Every brace, bracket,    *)
(* colon, comma, double quote and blank is a lexeme of its own; a word or  *)
(* a number is one lexeme.  The texts the model draws never put two words  *)
(* or two numbers side by side outside a string, so that the lexemes of a  *)
(* text are the ones Python's scanner sees.                                *)
(***************************************************************************)
EXTENDS Integers, Sequences, FiniteSets, TLC

VARIABLES
    secrets_key,     \* st.secrets["GEMINI_API_KEY"], NONE, or NOFILE
    env_key,         \* the environment variable GEMINI_API_KEY, or NONE
    env_given,       \* that variable as the process was started (history)
    GEMINI_API_KEY,  \* the module global of this script run
    model,           \* the configured client's key, "" before genai.configure
    pc,              \* where the script run is
    calls,           \* calls of model.generate_content so far
    prompt,          \* the prompt of the last call
    raw,             \* the reply text of the last evaluate_ticket
    gen,             \* how that reply was composed (history of the reply)
    outcome,         \* what the last evaluate_ticket returned or raised
    ui               \* the elements on the page

vars ==
    <<secrets_key, env_key, env_given, GEMINI_API_KEY, model, pc, calls, prompt, raw, gen,
      outcome, ui>>

\* Bounds of the model
MaxLen == 3
MaxCalls == 2

-----------------------------------------------------------------------------
(* Lexemes *)

LB == "{"
RB == "}"
LS == "["
RS == "]"
COLON == ":"
COMMA == ","
QUOTE == "\""
WS == " "

\* Number lexemes, each with ten times its value (2.5 is the one float).
NumTable ==
    ("0" :> 0) @@ ("1" :> 10) @@ ("2" :> 20) @@ ("3" :> 30) @@ ("4" :> 40) @@
    ("5" :> 50) @@ ("7" :> 70) @@ ("18" :> 180) @@ ("20" :> 200) @@
    ("-1" :> -10) @@ ("2.5" :> 25)

FloatToks == {"2.5"}

IsNumTok(t) == t \in DOMAIN NumTable

\* The five rubric criteria, in the order of the list.
QA_CRITERIA ==
    <<"accuracy", "empathy_and_tone", "clarity", "actionability",
      "escalation_awareness">>

Range(s) == {s[i] : i \in DOMAIN s}

-----------------------------------------------------------------------------
(* Python values as json.loads builds them.  Every value is a record with  *)
(* the same fields: t the type, s the lexemes of a string or of a number,  *)
(* n ten times a number's value, kv the members of a dict (in insertion    *)
(* order) or the items of a list (k empty).                                *)

JNull == [t |-> "NoneType", n |-> 0, s |-> <<>>, kv |-> <<>>]
JBool(b) == [t |-> "bool", n |-> IF b THEN 10 ELSE 0, s |-> <<>>, kv |-> <<>>]
JNum(tok) ==
    [t |-> IF tok \in FloatToks THEN "float" ELSE "int",
     n |-> NumTable[tok], s |-> <<tok>>, kv |-> <<>>]
JStr(content) == [t |-> "str", n |-> 0, s |-> content, kv |-> <<>>]
JList(items) ==
    [t |-> "list", n |-> 0, s |-> <<>>,
     kv |-> [i \in DOMAIN items |-> [k |-> <<>>, v |-> items[i]]]]
JDict(members) == [t |-> "dict", n |-> 0, s |-> <<>>, kv |-> members]

Keys(d) == {d.kv[i].k : i \in DOMAIN d.kv}
HasKey(d, name) == <<name>> \in Keys(d)
\* d[name], for a key the dict has
Get(d, name) == d.kv[CHOOSE i \in DOMAIN d.kv : d.kv[i].k = <<name>>].v

\* dict assignment d[k] = v: a key seen before keeps its place and takes the
\* new value, a new key goes last.
DictSet(members, k, v) ==
    IF \E i \in DOMAIN members : members[i].k = k
    THEN [i \in DOMAIN members |->
            IF members[i].k = k THEN [k |-> k, v |-> v] ELSE members[i]]
    ELSE Append(members, [k |-> k, v |-> v])

\* Python truth value of a value
Truthy(v) ==
    CASE v.t = "NoneType" -> FALSE
      [] v.t \in {"bool", "int", "float"} -> v.n # 0
      [] v.t = "str" -> v.s # <<>>
      [] OTHER -> v.kv # <<>>

-----------------------------------------------------------------------------
(* re.search(r"\{.*\}", raw, re.DOTALL): the leftmost "{" that has a "}"   *)
(* after it, through the last "}" of the text.                             *)

NoMatch == [found |-> FALSE, span |-> <<>>]

\* Mutant of re_search: the pattern written lazy, \{.*?\}, stops at the first "}".
re_search_Lazy(text) ==
    LET starts == {i \in DOMAIN text :
                     text[i] = LB /\ \E j \in DOMAIN text : j > i /\ text[j] = RB}
    IN IF starts = {} THEN NoMatch
       ELSE LET i == CHOOSE x \in starts : \A y \in starts : x <= y
                ends == {x \in DOMAIN text : x > i /\ text[x] = RB}
                j == CHOOSE x \in ends : \A y \in ends : x <= y
            IN [found |-> TRUE, span |-> SubSeq(text, i, j)]

re_search(text) ==
    LET starts == {i \in DOMAIN text :
                     text[i] = LB /\ \E j \in DOMAIN text : j > i /\ text[j] = RB}
    IN IF starts = {} THEN NoMatch
       ELSE LET i == CHOOSE x \in starts : \A y \in starts : x <= y
                j == CHOOSE x \in DOMAIN text :
                        /\ text[x] = RB
                        /\ \A y \in DOMAIN text : text[y] = RB => y <= x
            IN [found |-> TRUE, span |-> SubSeq(text, i, j)]

-----------------------------------------------------------------------------
(* json.loads.  A parse step returns [ok, v, nx]: the value and the index  *)
(* after it, or ok = FALSE where the decoder raises JSONDecodeError.       *)

ParseFail == [ok |-> FALSE, v |-> JNull, nx |-> 0]
Parsed(v, nx) == [ok |-> TRUE, v |-> v, nx |-> nx]

RECURSIVE SkipWs(_, _)
SkipWs(toks, i) ==
    IF i <= Len(toks) /\ toks[i] = WS THEN SkipWs(toks, i + 1) ELSE i

At(toks, i) == IF i \in DOMAIN toks THEN toks[i] ELSE "<end>"

\* A string whose opening quote is at i: everything up to the next quote.
ParseString(toks, i) ==
    LET ends == {j \in DOMAIN toks : j > i /\ toks[j] = QUOTE}
    IN IF ends = {} THEN ParseFail
       ELSE LET j == CHOOSE x \in ends : \A y \in ends : x <= y
            IN Parsed(JStr(SubSeq(toks, i + 1, j - 1)), j + 1)

RECURSIVE ParseValue(_, _)
RECURSIVE ParseMembers(_, _, _)
RECURSIVE ParseItems(_, _, _)

\* scan_once at index i (no blank is skipped here)
ParseValue(toks, i) ==
    LET c == At(toks, i)
    IN CASE c = QUOTE -> ParseString(toks, i)
         [] c = LB ->
              LET j == SkipWs(toks, i + 1)
              IN IF At(toks, j) = RB THEN Parsed(JDict(<<>>), j + 1)
                 ELSE ParseMembers(toks, j, <<>>)
         [] c = LS ->
              LET j == SkipWs(toks, i + 1)
              IN IF At(toks, j) = RS THEN Parsed(JList(<<>>), j + 1)
                 ELSE ParseItems(toks, j, <<>>)
         [] c = "null" -> Parsed(JNull, i + 1)
         [] c = "true" -> Parsed(JBool(TRUE), i + 1)
         [] c = "false" -> Parsed(JBool(FALSE), i + 1)
         [] IsNumTok(c) -> Parsed(JNum(c), i + 1)
         [] OTHER -> ParseFail

\* JSONObject from a member's key at i: "key" : value, then "," or "}"
ParseMembers(toks, i, acc) ==
    IF At(toks, i) # QUOTE THEN ParseFail
    ELSE LET key == ParseString(toks, i)
         IN IF ~key.ok THEN ParseFail
            ELSE LET c == SkipWs(toks, key.nx)
                 IN IF At(toks, c) # COLON THEN ParseFail
                    ELSE LET val == ParseValue(toks, SkipWs(toks, c + 1))
                         IN IF ~val.ok THEN ParseFail
                            ELSE LET e == SkipWs(toks, val.nx)
                                     members == DictSet(acc, key.v.s, val.v)
                                 IN CASE At(toks, e) = RB ->
                                           Parsed(JDict(members), e + 1)
                                      [] At(toks, e) = COMMA ->
                                           ParseMembers(toks, SkipWs(toks, e + 1),
                                                        members)
                                      [] OTHER -> ParseFail

\* JSONArray from an item at i: value, then "," or "]"
ParseItems(toks, i, acc) ==
    LET val == ParseValue(toks, i)
    IN IF ~val.ok THEN ParseFail
       ELSE LET e == SkipWs(toks, val.nx)
                items == Append(acc, [k |-> <<>>, v |-> val.v])
            IN CASE At(toks, e) = RS ->
                      Parsed([JList(<<>>) EXCEPT !.kv = items], e + 1)
                 [] At(toks, e) = COMMA ->
                      ParseItems(toks, SkipWs(toks, e + 1), items)
                 [] OTHER -> ParseFail

\* Mutant of json_loads: a text that does not parse is tried again with a
\* closing brace added.
json_loads_Repairing(text) ==
    LET strict(t) == LET r == ParseValue(t, SkipWs(t, 1))
                     IN IF r.ok /\ SkipWs(t, r.nx) = Len(t) + 1 THEN r ELSE ParseFail
    IN IF strict(text).ok THEN strict(text) ELSE strict(text \o <<RB>>)

\* json.loads(text): blanks, one value, blanks, and nothing after ("Extra data")
json_loads(text) ==
    LET r == ParseValue(text, SkipWs(text, 1))
    IN IF r.ok /\ SkipWs(text, r.nx) = Len(text) + 1 THEN r ELSE ParseFail

-----------------------------------------------------------------------------
(* repr(value), as the f-string of the "missing keys" message prints it *)

RECURSIVE Repr(_)
RECURSIVE ReprMembers(_, _)

Repr(v) ==
    CASE v.t = "NoneType" -> <<"None">>
      [] v.t = "bool" -> IF v.n # 0 THEN <<"True">> ELSE <<"False">>
      [] v.t \in {"int", "float"} -> v.s
      [] v.t = "str" -> <<"'">> \o v.s \o <<"'">>
      [] v.t = "list" -> <<LS>> \o ReprMembers(v.kv, FALSE) \o <<RS>>
      [] OTHER -> <<LB>> \o ReprMembers(v.kv, TRUE) \o <<RB>>

ReprMembers(kv, keyed) ==
    IF kv = <<>> THEN <<>>
    ELSE LET m == kv[1]
             one == (IF keyed THEN <<"'">> \o m.k \o <<"'", COLON, WS>> ELSE <<>>)
                    \o Repr(m.v)
         IN IF Len(kv) = 1 THEN one
            ELSE one \o <<COMMA, WS>> \o ReprMembers(Tail(kv), keyed)

-----------------------------------------------------------------------------
(* evaluate_ticket.  The reply of model.generate_content is a text, no     *)
(* text (resp.text is None), or an exception of the call.  The outcome is  *)
(* the returned dict, or the exception raised with the lexemes of str(e).  *)

SYSTEM_GUIDE == "<SYSTEM_GUIDE>"
DEFAULT_SAMPLE == "<DEFAULT_SAMPLE>"

\* lines 58-62: the guide, the heading, the transcript as it is
PromptOf(ticket_text) ==
    <<SYSTEM_GUIDE, "\n\nTICKET TRANSCRIPT:\n", ticket_text, "\n">>

TextReply(text) == [status |-> "text", text |-> text]
NoneReply == [status |-> "none", text |-> <<>>]
FailedReply == [status |-> "error", text |-> <<>>]

NO_JSON_MSG == "Model did not return JSON.\nRaw output:\n"
MISSING_KEYS_MSG == "JSON missing expected keys.\nGot:\n"
MISMATCH_MSG == "Criteria keys mismatch."
\* str(e) of a json.JSONDecodeError names the position; it is kept abstract.
DECODE_MSG == "<JSONDecodeError>"
\* str(e) of whatever generate_content raised
CALL_MSG == "<generate_content error>"

Returned(data) == [ok |-> TRUE, data |-> data, exc |-> "", msg |-> <<>>]
Raised(exc, msg) == [ok |-> FALSE, data |-> JNull, exc |-> exc, msg |-> msg]
NoOutcome == [ok |-> FALSE, data |-> JNull, exc |-> "", msg |-> <<>>]

\* raw = resp.text or ""
RawOf(reply) == IF reply.status = "text" THEN reply.text ELSE <<>>

\* line 73
MissingTopLevel(data) ==
    ~HasKey(data, "criteria_scores") \/ ~HasKey(data, "overall_score")

\* Mutant of KeysMismatch: only the missing criteria are looked for.
KeysMismatch_IgnoresExtra(cs) ==
    ~({<<c>> : c \in Range(QA_CRITERIA)} \subseteq Keys(cs))

\* Mutant of KeysMismatch: only the number of keys is compared.
KeysMismatch_CountOnly(cs) == Cardinality(Keys(cs)) # Len(QA_CRITERIA)

\* line 75, for a criteria_scores that has keys()
KeysMismatch(cs) == Keys(cs) # {<<c>> : c \in Range(QA_CRITERIA)}

\* Mutant of Validate: the two checks in the other order.
Validate_CriteriaFirst(data) ==
    IF /\ HasKey(data, "criteria_scores")
       /\ Get(data, "criteria_scores").t = "dict"
       /\ KeysMismatch(Get(data, "criteria_scores"))
    THEN Raised("ValueError", <<MISMATCH_MSG>>)
    ELSE IF MissingTopLevel(data)
    THEN Raised("ValueError", <<MISSING_KEYS_MSG>> \o Repr(data))
    ELSE IF Get(data, "criteria_scores").t # "dict"
    THEN Raised("AttributeError",
                <<"'", Get(data, "criteria_scores").t,
                  "' object has no attribute 'keys'">>)
    ELSE Returned(data)

\* lines 72-77
Validate(data) ==
    IF MissingTopLevel(data)
    THEN Raised("ValueError", <<MISSING_KEYS_MSG>> \o Repr(data))
    ELSE LET cs == Get(data, "criteria_scores")
         IN IF cs.t # "dict"
            THEN Raised("AttributeError",
                        <<"'", cs.t, "' object has no attribute 'keys'">>)
            ELSE IF KeysMismatch(cs)
            THEN Raised("ValueError", <<MISMATCH_MSG>>)
            ELSE Returned(data)

\* Mutant of NoJsonError: the message without the raw output.
NoJsonError_NoRaw(text) == Raised("ValueError", <<NO_JSON_MSG>>)

\* line 69
NoJsonError(text) == Raised("ValueError", <<NO_JSON_MSG>> \o text)

evaluate_ticket(reply) ==
    IF reply.status = "error" THEN Raised("Exception", <<CALL_MSG>>)
    ELSE LET text == RawOf(reply)
             match == re_search(text)
         IN IF ~match.found THEN NoJsonError(text)
            ELSE LET parsed == json_loads(match.span)
                 IN IF ~parsed.ok THEN Raised("JSONDecodeError", <<DECODE_MSG>>)
                    ELSE Validate(parsed.v)

\* The error kinds of the taxonomy, told apart by the exception and its text.
ErrKind(o) ==
    CASE o.ok \/ o.exc = "" -> "none"
      [] o.exc = "ValueError" /\ o.msg[1] = NO_JSON_MSG -> "NoJsonFound"
      [] o.exc = "JSONDecodeError" -> "MalformedJson"
      [] o.exc = "ValueError" /\ o.msg[1] = MISSING_KEYS_MSG -> "MissingKeys"
      [] o.exc = "ValueError" /\ o.msg[1] = MISMATCH_MSG -> "CriteriaMismatch"
      [] o.exc = "Exception" -> "ModelCallFailed"
      [] OTHER -> "Other"

-----------------------------------------------------------------------------
(* The page: the sequence of elements the script run has written so far.   *)
(* An element is [e, k, v, n]: the call, its text, the value and a number. *)

El(e, k, v) == [e |-> e, k |-> k, v |-> v, n |-> 0]
Metric(k, n) == [e |-> "metric", k |-> k, v |-> JNull, n |-> n]
ErrorBox(msg) == El("error", "", JStr(msg))
\* what Streamlit shows for an exception the script did not catch
Uncaught(exc) == El("exception", exc, JNull)

CONFIG_MSG == "Missing GEMINI_API_KEY."

\* k.replace('_', ' ').title()
TitleOf(k) ==
    CASE k = "accuracy" -> "Accuracy"
      [] k = "empathy_and_tone" -> "Empathy And Tone"
      [] k = "clarity" -> "Clarity"
      [] k = "actionability" -> "Actionability"
      [] k = "escalation_awareness" -> "Escalation Awareness"

Page(els, exc) == [els |-> els, exc |-> exc]

\* st.progress(value): a float outside [0.0, 1.0] is refused
ProgressAccepts(tenths) == 0 <= tenths /\ tenths <= 50

\* lines 114-115: one bar per criterion, in the order of QA_CRITERIA
RECURSIVE RenderBars(_, _)
RenderBars(cs, i) ==
    IF i > Len(QA_CRITERIA) THEN Page(<<>>, "")
    ELSE IF ~HasKey(cs, QA_CRITERIA[i]) THEN Page(<<>>, "KeyError")
    ELSE LET score == Get(cs, QA_CRITERIA[i])
         IN IF score.t \notin {"int", "float", "bool"} THEN Page(<<>>, "TypeError")
            ELSE IF ~ProgressAccepts(score.n)
            THEN Page(<<>>, "StreamlitAPIException")
            ELSE LET rest == RenderBars(cs, i + 1)
                 IN Page(<<El("progress", TitleOf(QA_CRITERIA[i]), score)>>
                            \o rest.els, rest.exc)

\* lines 122-123: "• " + q for every q of the iteration
RECURSIVE RenderBullets(_)
RenderBullets(qs) ==
    IF qs = <<>> THEN Page(<<>>, "")
    ELSE IF qs[1].t # "str" THEN Page(<<>>, "TypeError")
    ELSE LET rest == RenderBullets(Tail(qs))
         IN Page(<<El("write", "bullet", qs[1])>> \o rest.els, rest.exc)

\* iter(value): the items of a list, the keys of a dict, the characters of a
\* string (the strings iterated here are made of one-character lexemes)
IterOf(v) ==
    CASE v.t = "list" -> [i \in DOMAIN v.kv |-> v.kv[i].v]
      [] v.t = "dict" -> [i \in DOMAIN v.kv |-> JStr(v.kv[i].k)]
      [] v.t = "str" -> [i \in DOMAIN v.s |-> JStr(<<v.s[i]>>)]
      [] OTHER -> <<>>

\* lines 120-123, result.get("suggested_1on1_questions")
RenderQuestions(result) ==
    LET qs == IF HasKey(result, "suggested_1on1_questions")
              THEN Get(result, "suggested_1on1_questions") ELSE JNull
    IN IF ~Truthy(qs) THEN Page(<<>>, "")
       ELSE LET head == <<El("write", "### Suggested 1:1 Questions", JNull)>>
            IN IF qs.t \in {"int", "float", "bool"} THEN Page(head, "TypeError")
               ELSE LET b == RenderBullets(IterOf(qs))
                    IN Page(head \o b.els, b.exc)

\* lines 117-118
RenderSummary(result) ==
    LET head == <<El("write", "### Coaching Summary", JNull)>>
    IN IF ~HasKey(result, "coaching_summary") THEN Page(head, "KeyError")
       ELSE Page(head \o <<El("write", "", Get(result, "coaching_summary"))>>, "")

\* p, then q unless p raised
Then(p, q) == IF p.exc # "" THEN p ELSE Page(p.els \o q.els, q.exc)

\* lines 110-126: the else branch of the try, outside the except
RenderResult(result) ==
    LET top == Page(<<El("subheader", "Overall Score / 25",
                         Get(result, "overall_score")),
                      El("write", "### Criteria Scores", JNull)>>, "")
        bars == RenderBars(Get(result, "criteria_scores"), 1)
        json == Page(<<El("json", "Raw JSON (for debugging)", result)>>, "")
    IN Then(Then(Then(Then(top, bars), RenderSummary(result)),
                 RenderQuestions(result)), json)

\* Mutant of RunEval: "except ValueError" in place of "except Exception".
RunEval_OnlyValueError(o) ==
    IF o.ok THEN RenderResult(o.data)
    ELSE IF o.exc \in {"ValueError", "JSONDecodeError"}
    THEN Page(<<ErrorBox(o.msg)>>, "")
    ELSE Page(<<>>, o.exc)

\* lines 103-126: the body of "if run_eval"
RunEval(o) == IF o.ok THEN RenderResult(o.data) ELSE Page(<<ErrorBox(o.msg)>>, "")

\* lines 128-136
RoiEstimator(managers, hrs_saved_per_mgr, hourly_cost) ==
    LET weekly_hours == managers * hrs_saved_per_mgr
        weekly_savings == weekly_hours * hourly_cost
    IN <<El("divider", "", JNull),
         El("write", "#### ROI Estimator (toy example)", JNull),
         Metric("Estimated hours saved / week", weekly_hours),
         Metric("Estimated cost savings / week", weekly_savings)>>

-----------------------------------------------------------------------------
(* The replies of the model service.  A reply text carries a JSON text,    *)
(* written as the prompt's schema asks, between two pieces of prose, and   *)
(* may be cut short.                                                       *)

\* The JSON text of a value; spaced puts a blank after every ":" and ",".
\* A dict may list a key twice here: it is text, not yet a Python dict.
RECURSIVE Serialize(_, _)
RECURSIVE SerializeMembers(_, _, _)

Serialize(v, spaced) ==
    CASE v.t = "NoneType" -> <<"null">>
      [] v.t = "bool" -> IF v.n # 0 THEN <<"true">> ELSE <<"false">>
      [] v.t \in {"int", "float"} -> v.s
      [] v.t = "str" -> <<QUOTE>> \o v.s \o <<QUOTE>>
      [] v.t = "list" -> <<LS>> \o SerializeMembers(v.kv, FALSE, spaced) \o <<RS>>
      [] OTHER -> <<LB>> \o SerializeMembers(v.kv, TRUE, spaced) \o <<RB>>

SerializeMembers(kv, keyed, spaced) ==
    IF kv = <<>> THEN <<>>
    ELSE LET m == kv[1]
             gap == IF spaced THEN <<WS>> ELSE <<>>
             one == (IF keyed THEN <<QUOTE>> \o m.k \o <<QUOTE, COLON>> \o gap
                     ELSE <<>>) \o Serialize(m.v, spaced)
         IN IF Len(kv) = 1 THEN one
            ELSE one \o <<COMMA>> \o gap \o SerializeMembers(Tail(kv), keyed, spaced)

\* The Python value a JSON text denotes: a repeated key keeps its last value.
RECURSIVE Denotes(_)
RECURSIVE DenotesMembers(_, _)
Denotes(v) ==
    IF v.t \in {"list", "dict"} THEN [v EXCEPT !.kv = DenotesMembers(v.kv, <<>>)]
    ELSE v
DenotesMembers(kv, acc) ==
    IF kv = <<>> THEN acc
    ELSE DenotesMembers(Tail(kv),
            IF kv[1].k = <<>> THEN Append(acc, [k |-> <<>>, v |-> Denotes(kv[1].v)])
            ELSE DictSet(acc, kv[1].k, Denotes(kv[1].v)))

Absent == [t |-> "absent", n |-> 0, s |-> <<>>, kv |-> <<>>]

Reverse(s) == [i \in DOMAIN s |-> s[Len(s) + 1 - i]]

TypicalScores == <<JNum("4"), JNum("3"), JNum("5"), JNum("4"), JNum("2")>>

ScoreVecs ==
    {TypicalScores,
     [TypicalScores EXCEPT ![1] = JNum("7")],
     [TypicalScores EXCEPT ![2] = JNum("2.5")],
     [TypicalScores EXCEPT ![3] = JStr(<<"high">>)],
     [TypicalScores EXCEPT ![4] = JNum("-1")],
     [TypicalScores EXCEPT ![5] = JNull]}

KeySeqs ==
    {QA_CRITERIA,
     Reverse(QA_CRITERIA),
     SubSeq(QA_CRITERIA, 1, 4),
     QA_CRITERIA \o <<"extra">>,
     SubSeq(QA_CRITERIA, 1, 4) \o <<"tone">>,
     QA_CRITERIA \o <<"accuracy">>,
     <<>>}

\* criteria_scores with the given keys, the scores taken in turn
CsMap(keys, scores) ==
    JDict([i \in DOMAIN keys |->
             [k |-> <<keys[i]>>, v |-> scores[((i - 1) % Len(scores)) + 1]]])

CsMaps ==
    {CsMap(ks, TypicalScores) : ks \in KeySeqs}
      \cup {CsMap(QA_CRITERIA, sv) : sv \in ScoreVecs}

CsNonMaps == {JNum("5"), JStr(<<"good">>), JList(<<JNum("4")>>), JNull, JBool(TRUE)}

Overalls == {JNum("18"), JNum("20")}

Summary == JStr(<<"Be", WS, "proactive.">>)
BraceSummary == JStr(<<"Use", WS, LB, "name", RB, WS, "macro">>)
OneQuestion == JList(<<JStr(<<"What", WS, "blocked", WS, "escalation?">>)>>)

Questions ==
    {Absent, OneQuestion, JList(<<>>), JList(<<JNum("1")>>), JNum("5"),
     JStr(<<"O", "K">>), JNull}

\* The object of the schema, a member left out where its value is Absent.
Obj(cs, overall, summary, questions) ==
    LET m(k, v) == IF v = Absent THEN <<>> ELSE <<[k |-> <<k>>, v |-> v]>>
    IN JDict(m("criteria_scores", cs) \o m("overall_score", overall)
               \o m("coaching_summary", summary)
               \o m("suggested_1on1_questions", questions))

Canonical == Obj(CsMap(QA_CRITERIA, TypicalScores), JNum("18"), Summary, OneQuestion)

Sure == <<"Sure!", WS>>
Hope == <<WS, "Hope", WS, "this", WS, "helps!">>

\* how a reply text is composed: pre, the first cut lexemes of body, suf
Gen(fam, pre, body, cut, suf, src) ==
    [fam |-> fam, pre |-> pre, body |-> body, cut |-> cut, suf |-> suf, src |-> src]
NoGen == Gen("", <<>>, <<>>, 0, <<>>, JNull)
Whole(fam, pre, ast, spaced, suf) ==
    LET body == Serialize(ast, spaced)
    IN Gen(fam, pre, body, Len(body), suf, Denotes(ast))
TextOf(g) == g.pre \o SubSeq(g.body, 1, g.cut) \o g.suf

\* objects that pass or fail the validation, in prose
ShapeReplies ==
    {Whole("shape", Sure, Obj(cs, ov, su, OneQuestion), FALSE, Hope) :
        cs \in CsMaps \cup CsNonMaps \cup {Absent},
        ov \in Overalls \cup {Absent},
        su \in {Summary, Absent}}

\* objects with the five criteria, whatever the other values are
RenderReplies ==
    {Whole("render", <<>>, Obj(CsMap(QA_CRITERIA, sv), ov, su, qs), FALSE, <<>>) :
        sv \in ScoreVecs, ov \in Overalls, su \in {Summary, Absent},
        qs \in Questions}

Prefixes == {<<>>, Sure, <<RB, WS>>, <<"e.g.", WS, LB, "x", RB, WS>>}
Suffixes == {<<>>, Hope, <<WS, LB>>, <<WS, ":-", RB>>, <<WS, LB, RB>>}

\* an object between prose that may carry braces of its own
ProseReplies ==
    {Whole("prose", pre, ast, spaced, suf) :
        pre \in Prefixes, suf \in Suffixes, spaced \in BOOLEAN,
        ast \in {Canonical,
                 Obj(CsMap(QA_CRITERIA, TypicalScores), JNum("20"), BraceSummary,
                     JList(<<>>)),
                 JDict(<<>>)}}

\* an object cut short after any number of its lexemes
CutReplies ==
    UNION {LET body == Serialize(ast, FALSE)
           IN {Gen("cut", Sure, body, cut, suf, Denotes(ast)) :
                  cut \in 0..(Len(body) - 1), suf \in {<<>>, <<WS, "Hope">>}} :
           ast \in {Canonical,
                    Obj(CsMap(QA_CRITERIA, TypicalScores), JNum("18"),
                        BraceSummary, OneQuestion)}}

FreeAlphabet == {LB, RB, QUOTE, WS, "x"}

\* every short text over the alphabet
FreeReplies ==
    UNION {{Gen("free", <<>>, t, n, <<>>, JNull) : t \in [1..n -> FreeAlphabet]} :
           n \in 0..MaxLen}

Gens == ShapeReplies \cup RenderReplies \cup ProseReplies \cup CutReplies
          \cup FreeReplies

-----------------------------------------------------------------------------
(* The script run *)

NONE == "<absent>"
\* no secrets.toml at all: the secret store has nothing to parse
NOFILE == "<no secrets file>"
SecretValues == {NOFILE, NONE, "", "secret-key"}
EnvValues == {NONE, "", "env-key"}

\* st.secrets.get(name): Secrets.get reads the key through __getitem__, which
\* parses the secrets file first; with no file that shows an error box and
\* raises FileNotFoundError (StreamlitSecretNotFoundError in later versions),
\* which get does not catch.  With a file, a key it lacks gives None.
SecretsRaises(stored) == stored = NOFILE
SecretsGet(stored) == stored

NO_SECRETS_MSG == "No secrets files found."

\* Parsing the secrets file copies every root-level secret into os.environ:
\* the environment variable after st.secrets has read a file.
EnvAfterParse(stored, value) ==
    IF stored \in {NOFILE, NONE} THEN value ELSE stored

\* os.getenv(name, default)
GetEnv(value, default) == IF value = NONE THEN default ELSE value

KeyRead(key, env) == [exc |-> "", key |-> key, env |-> env]
KeyRaised(exc, env) == [exc |-> exc, key |-> NONE, env |-> env]

\* line 10: a or b; b is not evaluated when a raises, and reads the
\* environment as the parse of the secrets file left it
ReadKey(stored, value) ==
    IF SecretsRaises(stored) THEN KeyRaised("FileNotFoundError", value)
    ELSE LET a == SecretsGet(stored)
             env == EnvAfterParse(stored, value)
         IN KeyRead(IF a # NONE /\ a # "" THEN a ELSE GetEnv(env, ""), env)

\* what the text area may hold when Evaluate is pressed
Tickets == {DEFAULT_SAMPLE, ""}

TitleEl == El("title", "QA Coaching Agent (Free Tier)", JNull)

\* the inputs of the three number_input widgets
RoiInputs == {<<10, 4, 70>>, <<500, 20, 300>>}

Init ==
    /\ secrets_key \in SecretValues
    /\ env_key \in EnvValues
    /\ env_given = env_key
    /\ GEMINI_API_KEY = NONE
    /\ model = ""
    /\ pc = "startup"
    /\ calls = 0
    /\ prompt = <<>>
    /\ raw = <<>>
    /\ gen = NoGen
    /\ outcome = NoOutcome
    /\ ui = <<>>

\* lines 10-23 and 81-98: read the key (the run ends there if the read
\* raises), stop without it, else configure the client and lay out the form
Startup ==
    /\ pc = "startup"
    /\ LET read == ReadKey(secrets_key, env_key)
       IN /\ env_key' = read.env
          /\ IF read.exc # ""
             THEN /\ GEMINI_API_KEY' = GEMINI_API_KEY
                  /\ ui' = <<ErrorBox(<<NO_SECRETS_MSG>>), Uncaught(read.exc)>>
                  /\ model' = model
                  /\ pc' = "crashed"
             ELSE /\ GEMINI_API_KEY' = read.key
                  /\ IF read.key = ""
                     THEN /\ ui' = <<ErrorBox(<<CONFIG_MSG>>)>>
                          /\ model' = model
                          /\ pc' = "stopped"
                     ELSE /\ ui' = <<TitleEl>>
                          /\ model' = read.key
                          /\ pc' = "ui"
    /\ UNCHANGED <<secrets_key, env_given, calls, prompt, raw, gen, outcome>>

\* lines 103-126 with run_eval true: one call of the model, then the result
\* or the error on the page
EvaluateWith(reply, g) ==
    /\ pc = "ui"
    /\ calls < MaxCalls
    /\ \E ticket \in Tickets : prompt' = PromptOf(ticket)
    /\ LET o == evaluate_ticket(reply)
           page == RunEval(o)
       IN /\ outcome' = o
          /\ ui' = ui \o page.els
                      \o (IF page.exc # "" THEN <<Uncaught(page.exc)>> ELSE <<>>)
          /\ pc' = IF page.exc # "" THEN "crashed" ELSE "roi"
    /\ calls' = calls + 1
    /\ raw' = RawOf(reply)
    /\ gen' = g
    /\ UNCHANGED <<secrets_key, env_key, env_given, GEMINI_API_KEY, model>>

Evaluate ==
    \/ \E g \in Gens : EvaluateWith(TextReply(TextOf(g)), g)
    \/ EvaluateWith(NoneReply, Gen("none", <<>>, <<>>, 0, <<>>, JNull))
    \/ EvaluateWith(FailedReply, Gen("error", <<>>, <<>>, 0, <<>>, JNull))

\* a run in which neither button was pressed
NoClick ==
    /\ pc = "ui"
    /\ pc' = "roi"
    /\ UNCHANGED <<secrets_key, env_key, env_given, GEMINI_API_KEY, model, calls,
                   prompt, raw,
                   gen, outcome, ui>>

\* the start of a script run: the page and the module globals are fresh
FreshRun ==
    /\ pc' = "startup"
    /\ GEMINI_API_KEY' = NONE
    /\ model' = ""
    /\ prompt' = <<>>
    /\ raw' = <<>>
    /\ gen' = NoGen
    /\ outcome' = NoOutcome
    /\ ui' = <<>>
    /\ UNCHANGED <<secrets_key, env_key, env_given, calls>>

\* lines 100-101: Clear reruns the script at once
Clear ==
    /\ pc = "ui"
    /\ FreshRun

\* lines 128-136
Roi ==
    /\ pc = "roi"
    /\ \E in \in RoiInputs : ui' = ui \o RoiEstimator(in[1], in[2], in[3])
    /\ pc' = "done"
    /\ UNCHANGED <<secrets_key, env_key, env_given, GEMINI_API_KEY, model, calls,
                   prompt, raw,
                   gen, outcome>>

\* the user touches a widget after a run has ended: Streamlit runs the script
\* again from the top
Rerun ==
    /\ pc \in {"done", "crashed", "stopped"}
    /\ FreshRun

Next == Startup \/ Evaluate \/ NoClick \/ Clear \/ Roi \/ Rerun

Spec == Init /\ [][Next]_vars

-----------------------------------------------------------------------------
(* Properties.  The vocabulary below is written from the specification's   *)
(* words, not from the operators above.                                    *)

Rubric ==
    {<<"accuracy">>, <<"empathy_and_tone">>, <<"clarity">>, <<"actionability">>,
     <<"escalation_awareness">>}

Taxonomy == {"NoJsonFound", "MalformedJson", "MissingKeys", "CriteriaMismatch"}

\* the reply's text was handed to the extraction (the call itself succeeded)
GotReply == gen.fam \notin {"", "error"}
\* the reply carries one whole object between two pieces of prose
WholeObject == gen.fam \in {"shape", "render", "prose"}
\* no "{" in the prose before the object and no "}" in the prose after it
BraceFreeProse == LB \notin Range(gen.pre) /\ RB \notin Range(gen.suf)
\* a "{" with a "}" somewhere after it
HasSpan(text) ==
    \E i \in DOMAIN text : \E j \in DOMAIN text :
        i < j /\ text[i] = LB /\ text[j] = RB

HasBothKeys(d) == HasKey(d, "criteria_scores") /\ HasKey(d, "overall_score")
RubricShape(d) ==
    /\ d.t = "dict"
    /\ HasBothKeys(d)
    /\ Get(d, "criteria_scores").t = "dict"
    /\ Keys(Get(d, "criteria_scores")) = Rubric

Shows(e) == \E i \in DOMAIN ui : ui[i].e = e
Count(e) == Cardinality({i \in DOMAIN ui : ui[i].e = e})
ShowsResult == Shows("subheader") \/ Shows("progress") \/ Shows("json")
RoiShown == Count("metric") = Cardinality({"hours", "savings"})

\* C1: whatever Evaluate actions have run, a result is returned, and anything
\* of a result is on the page, only if the returned object has both
\* criteria_scores and overall_score and the keys of criteria_scores are
\* exactly the five rubric names.
C1_ReturnedHasRubricKeys ==
    /\ outcome.ok => RubricShape(outcome.data)
    /\ ShowsResult => outcome.ok /\ RubricShape(outcome.data)

\* C1 witness: a result whose criteria come in the reverse order was returned
\* and rendered, in a second evaluation.
C1_Witness ==
    /\ outcome.ok
    /\ calls = MaxCalls
    /\ pc = "done"
    /\ Get(outcome.data, "criteria_scores").kv[1].k = <<"escalation_awareness">>
    /\ Shows("json")

\* C2 as stated: prose, one valid object with the five rubric keys and an
\* overall_score, prose: the object is returned as given, whatever the prose.
C2_RoundTripAnyProse ==
    (WholeObject /\ RubricShape(gen.src)) =>
        outcome.ok /\ outcome.data = gen.src

\* C2 amended: the same, for prose with no "{" before the object and no "}"
\* after it; the overall_score is the one given, not the sum of the scores.
C2_RoundTripBraceFreeProse ==
    (WholeObject /\ RubricShape(gen.src) /\ BraceFreeProse) =>
        outcome.ok /\ outcome.data = gen.src

\* C2 witness: the object came back from between two pieces of prose, with an
\* overall_score of 20 beside scores that add up to 18.
C2_Witness ==
    /\ gen.fam = "prose"
    /\ gen.pre = Sure /\ gen.suf = Hope
    /\ outcome.ok
    /\ outcome.data = gen.src
    /\ Get(outcome.data, "overall_score") = JNum("20")
    /\ Get(outcome.data, "criteria_scores") = CsMap(QA_CRITERIA, TypicalScores)

\* C3: a reply with no "{" followed later by a "}" makes evaluate_ticket
\* raise NoJsonFound, return nothing, and the message ends with the whole
\* raw reply.
C3_NoSpanIsNoJsonFound ==
    (GotReply /\ ~HasSpan(raw)) =>
        /\ ~outcome.ok
        /\ ErrKind(outcome) = "NoJsonFound"
        /\ Len(outcome.msg) = Len(raw) + Len(<<NO_JSON_MSG>>)
        /\ SubSeq(outcome.msg, Len(outcome.msg) - Len(raw) + 1, Len(outcome.msg)) = raw

\* C3 witness: a reply with a "}" before its only "{" was refused so.
C3_Witness ==
    /\ raw = <<RB, "x", LB>>
    /\ ErrKind(outcome) = "NoJsonFound"
    /\ outcome.msg = <<NO_JSON_MSG, RB, "x", LB>>

\* the lexemes of {"criteria_scores":{"accuracy":4,
CutBegin ==
    Len(<<LB, QUOTE, "criteria_scores", QUOTE, COLON, LB, QUOTE, "accuracy", QUOTE,
          COLON, "4", COMMA>>)

\* C4 as stated: an object that begins {"criteria_scores":{"accuracy":...
\* and is cut anywhere before its closing brace fails with MalformedJson.
C4_TruncatedIsMalformed ==
    (gen.fam = "cut" /\ gen.cut >= CutBegin) => ErrKind(outcome) = "MalformedJson"

\* C4 amended: such a reply fails with MalformedJson when a "}" is left in
\* what remains of the object, and with NoJsonFound when none is left.
C4_TruncatedByBraceLeft ==
    (gen.fam = "cut" /\ gen.cut >= CutBegin) =>
        /\ ~outcome.ok
        /\ ErrKind(outcome) =
             IF RB \in Range(SubSeq(gen.body, 1, gen.cut))
             THEN "MalformedJson" ELSE "NoJsonFound"

\* C4 witness: the object cut right after the closing brace of
\* criteria_scores failed with MalformedJson.
C4_Witness ==
    /\ gen.fam = "cut"
    /\ gen.cut >= CutBegin
    /\ gen.body[gen.cut] = RB
    /\ Cardinality({i \in 1..gen.cut : gen.body[i] = RB}) = 1
    /\ ErrKind(outcome) = "MalformedJson"

\* C5: an extracted object with both top-level keys whose criteria_scores
\* is a mapping with a key set other than the rubric's fails with
\* CriteriaMismatch, and nothing is returned.
C5_WrongKeySetIsCriteriaMismatch ==
    (/\ WholeObject /\ BraceFreeProse
     /\ HasBothKeys(gen.src)
     /\ Get(gen.src, "criteria_scores").t = "dict"
     /\ Keys(Get(gen.src, "criteria_scores")) # Rubric) =>
        ~outcome.ok /\ ErrKind(outcome) = "CriteriaMismatch"

\* C5 witness: four of the five keys (no escalation_awareness) were refused.
C5_Witness ==
    /\ WholeObject
    /\ HasBothKeys(gen.src)
    /\ Keys(Get(gen.src, "criteria_scores")) = Rubric \ {<<"escalation_awareness">>}
    /\ ErrKind(outcome) = "CriteriaMismatch"

\* C6: an extracted object that lacks criteria_scores or overall_score fails
\* with MissingKeys, whatever criteria_scores holds.
C6_MissingTopLevelIsMissingKeys ==
    (WholeObject /\ BraceFreeProse /\ ~HasBothKeys(gen.src)) =>
        ~outcome.ok /\ ErrKind(outcome) = "MissingKeys"

\* C6 witness: no overall_score and a criteria_scores with a wrong key set:
\* MissingKeys was reported.
C6_Witness ==
    /\ WholeObject
    /\ HasKey(gen.src, "criteria_scores")
    /\ ~HasKey(gen.src, "overall_score")
    /\ Get(gen.src, "criteria_scores").t = "dict"
    /\ Keys(Get(gen.src, "criteria_scores")) # Rubric
    /\ ErrKind(outcome) = "MissingKeys"

\* C7: whatever evaluate_ticket raised, the page holds the error box with the
\* error's text and nothing of a result, the run did not crash, and at its
\* end the ROI estimator is on the page.
C7_ErrorsShownRunContinues ==
    (gen.fam # "" /\ ~outcome.ok) =>
        /\ pc \in {"roi", "done"}
        /\ Count("error") = Cardinality({outcome.exc})
        /\ \E i \in DOMAIN ui : ui[i] = ErrorBox(outcome.msg)
        /\ ~ShowsResult
        /\ ~Shows("exception")
        /\ pc = "done" => RoiShown

\* C7 witness: the model call itself failed, and the run ended with the error
\* box and the ROI estimator.
C7_Witness ==
    /\ gen.fam = "error"
    /\ outcome.exc = "Exception"
    /\ pc = "done"
    /\ Shows("error")
    /\ RoiShown

\* the key is in neither place: no secrets file, a file without the key or
\* with an empty one; no variable or an empty one when the process started
KeyAbsent == secrets_key \in {NOFILE, NONE, ""} /\ env_given \in {NONE, ""}

\* C8: without a key in the secret store and in the environment the run
\* stops at startup with the message: no client, no form, no model call.
\* With a key in either, the secret store's first, startup goes on.
C8_NoKeyStopsAtStartup ==
    /\ KeyAbsent =>
         /\ pc \in {"startup", "stopped"}
         /\ model = ""
         /\ calls = 0
         /\ ~Shows("title")
         /\ pc = "stopped" => ui = <<ErrorBox(<<CONFIG_MSG>>)>>
    /\ ~KeyAbsent =>
         /\ pc # "stopped"
         /\ pc # "startup" =>
              /\ model = IF secrets_key \in {NOFILE, NONE, ""}
                         THEN env_given ELSE secrets_key
              /\ GEMINI_API_KEY = model
              /\ ui[1] = TitleEl

\* C9: every returned result is rendered in full and the rendering does not
\* raise: the overall score, five bars, the summary, the questions if any,
\* and the raw JSON.
C9_AcceptedResultRenders ==
    outcome.ok =>
        /\ pc \in {"roi", "done"}
        /\ ~Shows("exception")
        /\ Shows("subheader")
        /\ Count("progress") = Cardinality(Rubric)
        /\ Shows("json")

\* C10: once the model call returned, every failure of evaluate_ticket is one
\* of the four kinds; a criteria_scores that is no mapping is a
\* CriteriaMismatch.
C10_FailuresInTaxonomy ==
    (GotReply /\ ~outcome.ok) =>
        /\ ErrKind(outcome) \in Taxonomy
        /\ (/\ WholeObject /\ BraceFreeProse
            /\ HasBothKeys(gen.src)
            /\ Get(gen.src, "criteria_scores").t # "dict") =>
               ErrKind(outcome) = "CriteriaMismatch"

=============================================================================
